---- MODULE Spec2Model ----
(***************************************************************************)
(* Model of the kowai backend's workflow execution:                        *)
(*   - sequential_chat_processing_flow and its two Prefect tasks           *)
(*     (app/ai/workflows/flows/sequential_processing.py);                  *)
(*   - the workflow HTTP routes (app/api/v1/workflows/routes.py).          *)
(* Prefect's task engine (retries, retry delay) and flow engine            *)
(* (timeout_seconds) are modelled as the decorators configure them.        *)
(***************************************************************************)
EXTENDS Integers, Sequences, FiniteSets, TLC

(***************************************************************************)
(* Bounds of the model.                                                    *)
(***************************************************************************)
\* Seconds by which one Tick advances the clock.
TimeStep == 5

(***************************************************************************)
(* Program constants.                                                      *)
(***************************************************************************)
\* @task(retries=3, retry_delay_seconds=5) on security_check
security_check_retries == 3
security_check_retry_delay_seconds == 5
\* @task(retries=3, retry_delay_seconds=5) on get_response
get_response_retries == 3
get_response_retry_delay_seconds == 5
\* @flow(task_runner=ConcurrentTaskRunner(), timeout_seconds=300)
timeout_seconds == 300

Tasks == {"security_check", "get_response"}

Retries(t) ==
    IF t = "security_check" THEN security_check_retries ELSE get_response_retries

RetryDelaySeconds(t) ==
    IF t = "security_check" THEN security_check_retry_delay_seconds
    ELSE get_response_retry_delay_seconds

(***************************************************************************)
(* Strings are sequences of characters, so that str.lower() is computed.   *)
(***************************************************************************)
UpperLetters ==
    <<"A","B","C","D","E","F","G","H","I","J","K","L","M",
      "N","O","P","Q","R","S","T","U","V","W","X","Y","Z">>
LowerLetters ==
    <<"a","b","c","d","e","f","g","h","i","j","k","l","m",
      "n","o","p","q","r","s","t","u","v","w","x","y","z">>

LowerChar(c) ==
    IF \E i \in DOMAIN UpperLetters : UpperLetters[i] = c
    THEN LowerLetters[CHOOSE i \in DOMAIN UpperLetters : UpperLetters[i] = c]
    ELSE c

\* str.lower()
Lower(s) == [i \in DOMAIN s |-> LowerChar(s[i])]

StrPassed == <<"p","a","s","s","e","d">>
StrPassedCap == <<"P","a","s","s","e","d">>
StrPassedUpper == <<"P","A","S","S","E","D">>
StrFailed == <<"f","a","i","l","e","d">>
StrMaybe == <<"m","a","y","b","e">>

\* What the agent call `await agent(msg)` can return.
AgentResults == {StrPassed, StrPassedCap, StrPassedUpper, StrFailed, StrMaybe}

\* The exceptions the agent call can raise, by the class the provider error
\* belongs to (network/timeout/rate-limit versus authentication/validation).
TransientInferenceError == "TransientInferenceError"
FatalInferenceError == "FatalInferenceError"
AgentErrors == {TransientInferenceError, FatalInferenceError}

\* raise ValueError("Security check failed")
SecurityRejected == "ValueError: Security check failed"
\* The flow engine's failure when timeout_seconds has elapsed.
WorkflowTimeout == "TimedOut"
NoError == "none"

VARIABLES
    flowStatus,      \* state of the flow run: pending, running, completed, failed
    taskState,       \* per task: notstarted, running, retrying, completed, failed, crashed
    attempts,        \* per task: number of attempts started
    transients,      \* per task: number of attempts that raised a transient error
    fatals,          \* per task: number of attempts that raised a fatal error
    lastError,       \* per task: the exception of its latest failed attempt
    delayed,         \* per task: total seconds of retry delay scheduled
    sleepLeft,       \* seconds left of the retry delay being slept
    hung,            \* the outstanding agent call never returns
    sc_result,       \* the string the agent returned to security_check
    security_passed, \* the value security_check returned
    response,        \* the value the flow returned
    error,           \* the exception the flow run failed with
    errorAttempt,    \* the attempt that raised it (0: not raised by an attempt)
    clock,           \* seconds of wall-clock time
    started_at,      \* clock when the flow run started
    completed_at     \* clock when the flow run reached a final state

flowVars ==
    <<flowStatus, taskState, attempts, transients, fatals, lastError, delayed, sleepLeft,
      hung, sc_result, security_passed, response, error, errorAttempt, clock,
      started_at, completed_at>>

\* State of the workflow routes.
VARIABLES
    now,             \* datetime.utcnow(), in seconds
    workflows,       \* ids of the workflows triggered so far
    scheduled,       \* background tasks added and not yet run
    execLog,         \* per workflow id: what its background task logged
    produced,        \* the status records of the latest response
    reported         \* per workflow id: the status last reported to a caller

apiVars == <<now, workflows, scheduled, execLog, produced, reported>>

\* State of one Management object under update_metadata calls.
VARIABLES
    um_metadata,     \* self.metadata: the Metadata's field values
    um_before,       \* the field values before the latest update_metadata call
    um_kwargs,       \* the keyword arguments of that call, in order
    um_raised        \* the exception that call raised

updateVars == <<um_metadata, um_before, um_kwargs, um_raised>>

\* Objects a caller builds: Metadata, a Management, agents, and flow runs.
VARIABLES
    allocated,       \* the Metadata objects constructed so far
    heap,            \* the field values of each Metadata object
    manager,         \* the Management object's self.metadata (a reference)
    agents,          \* each agent object: class, references, client
    runs             \* each flow run in flight: the agent it was handed

bindVars == <<allocated, heap, manager, agents, runs>>

\* One query run through both variants of a persona.
VARIABLES
    p_persona,       \* the persona whose two variants run
    p_ambient,       \* dspy.settings.lm, the client configured process-wide
    p_results,       \* the inference result the k-th stage call gets
    p_run            \* per variant: position, stage calls made, output

pipeVars == <<p_persona, p_ambient, p_results, p_run>>

\* One configuration on its way from Metadata(...) to an agent's client.
VARIABLES
    c_args,          \* the arguments Metadata(...) was called with
    c_metadata,      \* the Metadata object's field values
    c_phase,         \* "none", "metadata", "bound" or "failed"
    c_error          \* the exception that ended it

configVars == <<c_args, c_metadata, c_phase, c_error>>

\* The latest request to the agents routes and its answer.
VARIABLES
    ag_route,        \* "get_agent_status" or "reset_agent"
    ag_agent_id,     \* the agent_id path parameter
    ag_status_code   \* the HTTP status of the answer

agentApiVars == <<ag_route, ag_agent_id, ag_status_code>>

\* The latest health_check call: what it met and what it answered.
VARIABLES
    h_input,         \* the readings of psutil and the failures met
    h_response       \* the HealthCheckResponse: status and checks

healthVars == <<h_input, h_response>>

\* CompressionMiddleware and the requests passing through it.
VARIABLES
    cm_minimum_size, \* self.minimum_size
    cm_dispatch      \* per request: where its dispatch call is, its
                     \* Accept-Encoding header, the response of call_next
                     \* and what dispatch returned or raised

compressVars == <<cm_minimum_size, cm_dispatch>>

\* One run of KowAIBuildSystem.build.
VARIABLES
    b_env,           \* the environment of the run: what each tool does
    b_pc,            \* the step build is about to call, 0 before build
    b_log,           \* the steps called so far, in order
    b_cwd,           \* os.getcwd()
    b_exit           \* NoExit, 0 after build returned, 1 after sys.exit(1)

buildVars == <<b_env, b_pc, b_log, b_cwd, b_exit>>

vars ==
    <<flowVars, apiVars, updateVars, bindVars, pipeVars, configVars, agentApiVars, healthVars, compressVars, buildVars>>

\* What the actions of one part leave unchanged.
notBuildVars ==
    <<flowVars, apiVars, updateVars, bindVars, pipeVars, configVars, agentApiVars, healthVars, compressVars>>
notCompressVars ==
    <<flowVars, apiVars, updateVars, bindVars, pipeVars, configVars, agentApiVars, healthVars, buildVars>>
notHealthVars ==
    <<flowVars, apiVars, updateVars, bindVars, pipeVars, configVars, agentApiVars, compressVars, buildVars>>
notFlowVars ==
    <<apiVars, updateVars, bindVars, pipeVars, configVars, agentApiVars, healthVars, compressVars, buildVars>>
notApiVars ==
    <<flowVars, updateVars, bindVars, pipeVars, configVars, agentApiVars, healthVars, compressVars, buildVars>>
notUpdateVars ==
    <<flowVars, apiVars, bindVars, pipeVars, configVars, agentApiVars, healthVars, compressVars, buildVars>>
notBindVars ==
    <<flowVars, apiVars, updateVars, pipeVars, configVars, agentApiVars, healthVars, compressVars, buildVars>>
notPipeVars ==
    <<flowVars, apiVars, updateVars, bindVars, configVars, agentApiVars, healthVars, compressVars, buildVars>>
notAgentApiVars ==
    <<flowVars, apiVars, updateVars, bindVars, pipeVars, configVars, healthVars, compressVars, buildVars>>
notConfigVars ==
    <<flowVars, apiVars, updateVars, bindVars, pipeVars, agentApiVars, healthVars, compressVars, buildVars>>

NoTime == -1
NoString == <<>>

(***************************************************************************)
(* Metadata and Management: app/ai/agents.py.                              *)
(***************************************************************************)
\* Bound on the number of keyword arguments of one update_metadata call.
MaxKwargs == 2

\* class Metadata: its fields.
MetadataFields ==
    {"model", "tokens", "temperature", "max_tokens", "provider", "api_key",
     "base_url"}

\* Public attributes every pydantic model instance has besides its fields:
\* methods of BaseModel.
ModelAttributes == {"copy", "json", "dict", "model_dump"}

\* Attributes of the instance whose name starts with an underscore and
\* that are no declared private attributes: the class docstring and the
\* ABC registry of the class.
UnderscoreAttributes == {"__doc__", "_abc_impl"}

\* class ProviderType(Enum): each member with its value.
ProviderType ==
    {<<"ProviderType.OPENAI", "openai">>, <<"ProviderType.AZURE", "azure">>,
     <<"ProviderType.AWS", "aws">>,
     <<"ProviderType.HUGGINGFACE", "huggingface">>,
     <<"ProviderType.COHERE", "cohere">>,
     <<"ProviderType.ANTHROPIC", "anthropic">>,
     <<"ProviderType.MISTRAL", "mistral">>, <<"ProviderType.GROQ", "groq">>,
     <<"ProviderType.GROK", "grok">>, <<"ProviderType.GOOGLE", "google">>,
     <<"ProviderType.LOCAL", "local">>,
     <<"ProviderType.OPENROUTER", "openrouter">>}

ProviderMembers == {p[1] : p \in ProviderType}
ProviderValues == {p[2] : p \in ProviderType}

\* member.value
ProviderValue(member) == (CHOOSE p \in ProviderType : p[1] = member)[2]

\* ProviderType("openai"): the member of a value.
ProviderMember(v) == (CHOOSE p \in ProviderType : p[2] = v)[1]

\* A Metadata object as the model first builds it; field values are written
\* as text.  __doc__ and _abc_impl are what the instance reads from its
\* class until an attribute of that name is set on it.
DefaultMetadata ==
    [model |-> "openai/gpt-4o", tokens |-> "1000", temperature |-> "0.2",
     max_tokens |-> "500", provider |-> "ProviderType.OPENAI",
     api_key |-> "None", base_url |-> "None",
     __doc__ |-> "Metadata for AI agent management",
     _abc_impl |-> "_abc_data"]

\* The keyword arguments the model passes to update_metadata: four of the
\* fields with a value other than the default (temperature with two), a
\* method of the model, an underscore attribute, and a name the object does
\* not have.
KwargEntries ==
    {[key |-> "model", value |-> "openai/gpt-4o-mini"],
     [key |-> "temperature", value |-> "0.7"],
     [key |-> "temperature", value |-> "0.9"],
     [key |-> "provider", value |-> "ProviderType.ANTHROPIC"],
     [key |-> "api_key", value |-> "sk-1"],
     [key |-> "copy", value |-> "x"],
     [key |-> "__doc__", value |-> "x"],
     [key |-> "nonexistent", value |-> "x"]}

\* The keyword arguments: a dict, so no key twice, in the order given.
KwargsOfLen(n) ==
    {kw \in [1..n -> KwargEntries] :
        \A i, j \in 1..n : i # j => kw[i].key # kw[j].key}

KwargsInputs == UNION {KwargsOfLen(n) : n \in 1..MaxKwargs}

\* hasattr(self.metadata, key)
HasAttr(md, key) ==
    key \in MetadataFields \cup ModelAttributes \cup UnderscoreAttributes

InvalidFieldError == "ValueError: Invalid metadata field"
NoFieldError == "ValueError: object has no field"

\* setattr(self.metadata, key, value): pydantic sets a field as given
\* (assignments are not validated), stores a name that starts with an
\* underscore on the instance without a check, and raises ValueError for
\* another name.
SetAttr(md, key, value) ==
    IF key \in MetadataFields \cup UnderscoreAttributes
    THEN [metadata |-> [md EXCEPT ![key] = value], raised |-> NoError]
    ELSE [metadata |-> md, raised |-> NoFieldError]

\* The loop of Management.update_metadata over kwargs.items(): lines 53-58.
RECURSIVE UpdateLoop(_, _)
UpdateLoop(md, kwargs) ==
    IF kwargs = <<>>
    THEN [metadata |-> md, raised |-> NoError]
    ELSE LET kv == Head(kwargs)
             set == SetAttr(md, kv.key, kv.value)
         IN  IF HasAttr(md, kv.key)
             THEN IF set.raised = NoError
                  THEN UpdateLoop(set.metadata, Tail(kwargs))
                  ELSE set
             ELSE [metadata |-> md, raised |-> InvalidFieldError]

\* Management.update_metadata with its keyword arguments: lines 51-58.
update_metadata(md, kwargs) == UpdateLoop(md, kwargs)

(***************************************************************************)
(* A caller calls update_metadata on the Management object.                *)
(***************************************************************************)
CallUpdateMetadata(kwargs) ==
    /\ um_before' = um_metadata
    /\ um_kwargs' = kwargs
    /\ um_metadata' = update_metadata(um_metadata, kwargs).metadata
    /\ um_raised' = update_metadata(um_metadata, kwargs).raised
    /\ UNCHANGED <<notUpdateVars>>

(***************************************************************************)
(* Binding: agents are constructed from Metadata objects and handed to     *)
(* flow runs.  Objects are held by reference.                              *)
(***************************************************************************)
\* The dspy.Signature classes: declared input and output field names.
Signatures ==
    [ReasoningNode |->
        [inputs |-> {"query"}, outputs |-> {"keywords", "reasoning"}],
     EnhanceQueryNode |->
        [inputs |-> {"query", "keywords", "reasoning"},
         outputs |-> {"enhanced_query"}],
     QANode |->
        [inputs |-> {"question", "context"}, outputs |-> {"answer"}],
     AdvisorNode |->
        [inputs |-> {"query", "keywords", "reasoning"},
         outputs |-> {"advice"}],
     CreativeNode |->
        [inputs |-> {"query", "keywords", "reasoning"},
         outputs |-> {"creative_output"}],
     MentorNode |->
        [inputs |-> {"query", "keywords", "reasoning"},
         outputs |-> {"guidance"}],
     MathNode |->
        [inputs |-> {"query", "reasoning"}, outputs |-> {"result"}],
     SecurityNode |->
        [inputs |-> {"query"}, outputs |-> {"security_check"}]]

\* The stages of each agent class, in the order forward calls them.
PipelineOf(cls) ==
    CASE cls \in {"BaseAgent", "BaseAgentSync", "Researcher", "ResearcherSync"}
            -> <<"ReasoningNode", "EnhanceQueryNode", "QANode">>
      [] cls \in {"AdvisorAgent", "AdvisorAgentSync"}
            -> <<"ReasoningNode", "AdvisorNode">>
      [] cls \in {"CreativeAgent", "CreativeAgentSync"}
            -> <<"ReasoningNode", "CreativeNode">>
      [] cls \in {"MentorAgent", "MentorAgentSync"}
            -> <<"ReasoningNode", "MentorNode">>
      [] cls \in {"MathAgent", "MathAgentSync"}
            -> <<"ReasoningNode", "MathNode">>
      [] cls = "SecurityAgent" -> <<"SecurityNode">>

MetadataIds == {"m1", "m2"}
AgentIds == {"a1", "a2"}
RunIds == {"r1", "r2"}
NoObject == "none"

\* The agent classes constructed here.
BindClasses == {"BaseAgent", "Researcher", "SecurityAgent"}

\* The module-level search_tool object of tools/search.py.
search_tool == "search_tool"
NoTool == "no tool"

\* self.search_tool of an agent class.
ToolOf(cls) == IF cls = "Researcher" THEN search_tool ELSE NoTool

\* Management.get_lm: the client is built from the field values of the
\* moment.
get_lm(md) ==
    [model |-> md.model, max_tokens |-> md.max_tokens,
     temperature |-> md.temperature,
     provider |-> ProviderValue(md.provider),
     api_key |-> md.api_key, base_url |-> md.base_url]

\* An agent id not yet constructed.
NoAgent ==
    [cls |-> NoObject, metadata |-> NoObject, lm |-> get_lm(DefaultMetadata),
     bound |-> DefaultMetadata, tool |-> NoTool]

\* The agent object each task of run r calls: the flow passes its one agent
\* parameter to both (lines 55 and 59).
security_check_agent(r) == runs[r]
get_response_agent(r) == runs[r]

\* The update_metadata calls made on the Management object here.
BindKwargs ==
    {kw \in KwargsOfLen(1) : kw[1].key \in {"temperature", "nonexistent"}}

\* A caller constructs a Metadata object.
Metadata__init__(m) ==
    /\ m \notin allocated
    /\ allocated' = allocated \cup {m}
    /\ heap' = [heap EXCEPT ![m] = DefaultMetadata]
    /\ UNCHANGED <<notBindVars, manager, agents, runs>>

\* Management(metadata): keeps the reference.
Management__init__(m) ==
    /\ manager = NoObject
    /\ m \in allocated
    /\ manager' = m
    /\ UNCHANGED <<notBindVars, allocated, heap, agents, runs>>

\* Management.get_metadata: returns the reference.
get_metadata == manager

\* Management.set_metadata(metadata): rebinds the manager's reference.
set_metadata(m) ==
    /\ manager # NoObject
    /\ m \in allocated
    /\ manager' = m
    /\ UNCHANGED <<notBindVars, allocated, heap, agents, runs>>

\* Management.update_metadata on the object the manager refers to.
ManagerUpdateMetadata(kwargs) ==
    /\ manager # NoObject
    /\ heap' = [heap EXCEPT
                   ![get_metadata] = update_metadata(@, kwargs).metadata]
    /\ UNCHANGED <<notBindVars, allocated, manager, agents, runs>>

\* cls(metadata): __init__ keeps the reference and builds the client; no
\* check of the stage signatures is made.  `bound` remembers the field values
\* at this moment.
Agent__init__(a, cls, m) ==
    /\ agents[a].cls = NoObject
    /\ m \in allocated
    /\ agents' = [agents EXCEPT
                     ![a] = [cls |-> cls, metadata |-> m,
                             lm |-> get_lm(heap[m]), bound |-> heap[m],
                             tool |-> ToolOf(cls)]]
    /\ UNCHANGED <<notBindVars, allocated, heap, manager, runs>>

\* sequential_chat_processing_flow(agent, message): the run uses the agent
\* object it is handed.
StartRun(r, a) ==
    /\ runs[r] = NoObject
    /\ agents[a].cls # NoObject
    /\ runs' = [runs EXCEPT ![r] = a]
    /\ UNCHANGED <<notBindVars, allocated, heap, manager, agents>>

(***************************************************************************)
(* Pipelines: forward of each agent class, async and sync variant.         *)
(***************************************************************************)
Personas ==
    {"BaseAgent", "AdvisorAgent", "CreativeAgent", "MentorAgent", "MathAgent",
     "Researcher"}
Variants == {"async", "sync"}

\* Values flowing through a run, by where they come from.
Query == "query"
ReasonerKeywords == "enhancements.keywords"
ReasonerReasoning == "enhancements.reasoning"
EnhancedQuery == "enhanced_query.enhanced_query"
ResearcherContext == "Search for the answer. There's no context available yet."

\* The calls forward makes, in order: the attribute called, how the argument
\* is passed to it, the keyword arguments, and whether the async variant
\* reads an attribute of the un-awaited coroutine.
ReasonerCall(style) ==
    [attr |-> "reasoner", style |-> style, args |-> {<<"query", Query>>},
     attr_of_coroutine |-> FALSE]
EnhanceQueryCall(attr_of_coroutine) ==
    [attr |-> "enhance_query", style |-> "keyword",
     args |-> {<<"query", Query>>, <<"keywords", ReasonerKeywords>>,
               <<"reasoning", ReasonerReasoning>>},
     attr_of_coroutine |-> attr_of_coroutine]
PredictCall(attr) ==
    [attr |-> attr, style |-> "keyword",
     args |-> {<<"query", Query>>, <<"keywords", ReasonerKeywords>>,
               <<"reasoning", ReasonerReasoning>>},
     attr_of_coroutine |-> TRUE]

\* Mutant of GetAnswerCall: the answerer is given the original query.
GetAnswerCallOriginalQuery ==
    [attr |-> "get_answer", style |-> "keyword",
     args |-> {<<"question", Query>>, <<"context", ReasonerReasoning>>},
     attr_of_coroutine |-> FALSE]

\* BaseAgent.forward lines 77-80.
GetAnswerCall ==
    [attr |-> "get_answer", style |-> "keyword",
     args |-> {<<"question", EnhancedQuery>>,
               <<"context", ReasonerReasoning>>},
     attr_of_coroutine |-> FALSE]

ForwardCalls(persona) ==
    CASE persona = "BaseAgent" ->
            <<ReasonerCall("keyword"), EnhanceQueryCall(FALSE), GetAnswerCall>>
      [] persona = "AdvisorAgent" ->
            <<ReasonerCall("positional"), PredictCall("advisor")>>
      [] persona = "CreativeAgent" ->
            <<ReasonerCall("positional"), PredictCall("creative_generator")>>
      [] persona = "MentorAgent" ->
            <<ReasonerCall("positional"), PredictCall("mentor")>>
      [] persona = "MathAgent" ->
            <<ReasonerCall("positional"),
              [attr |-> "solve", style |-> "keyword",
               args |-> {<<"query", Query>>,
                         <<"reasoning", ReasonerReasoning>>},
               attr_of_coroutine |-> TRUE]>>
      [] persona = "Researcher" ->
            <<ReasonerCall("positional"), EnhanceQueryCall(TRUE),
              [attr |-> "researcher", style |-> "keyword",
               args |-> {<<"question", EnhancedQuery>>,
                         <<"context", ResearcherContext>>},
               attr_of_coroutine |-> TRUE]>>

\* What forward returns after its last call.
OutputOf(persona) ==
    CASE persona = "BaseAgent" -> "answer.answer"
      [] persona = "AdvisorAgent" -> "advice"
      [] persona = "CreativeAgent" -> "creative_output"
      [] persona = "MentorAgent" -> "guidance"
      [] persona = "MathAgent" -> "result"
      [] persona = "Researcher" -> "search_results"

\* The clients a call can run on.
SelfLm == "self.lm"
OtherLm == "another lm"
NoLm == "None"
AmbientClients == {SelfLm, OtherLm, NoLm}

\* The client a stage call of the variant runs on: only BaseAgent.forward
\* (async) enters dspy.context(lm=self.lm); every other forward uses
\* dspy.settings.lm.
ClientOf(persona, variant) ==
    IF persona = "BaseAgent" /\ variant = "async" THEN SelfLm ELSE p_ambient

PositionalArgumentError == "TypeError: positional argument"
CoroutineAttributeError == "AttributeError: coroutine has no attribute"
NoLmLoadedError == "ValueError: No LM is loaded"

InferenceResults == {"ok", "error"}
MaxStages == Len(ForwardCalls("BaseAgent"))

\* A variant that has not made a call yet.
NoRun == [pc |-> 1, phase |-> "notstarted", calls |-> <<>>, finished |-> {},
          out |-> NoError, error |-> NoError]

\* A caller runs the same query through both variants of a persona.
StartPipelines(persona, ambient, results) ==
    /\ p_persona = NoObject
    /\ p_persona' = persona
    /\ p_ambient' = ambient
    /\ p_results' = results
    /\ p_run' = [v \in Variants |-> [NoRun EXCEPT !.phase = "ready"]]
    /\ UNCHANGED <<notPipeVars>>

\* The exception the variant's next call raises before any inference.
CallError(persona, variant, call) ==
    CASE call.style = "positional" -> PositionalArgumentError
      [] call.style # "positional" /\ variant = "async"
            /\ call.attr_of_coroutine -> CoroutineAttributeError
      [] OTHER -> IF ClientOf(persona, variant) = NoLm
                  THEN NoLmLoadedError ELSE NoError

\* forward reaches its next stage call.
StageStart(v) ==
    /\ p_run[v].phase = "ready"
    /\ LET call == ForwardCalls(p_persona)[p_run[v].pc]
           exc == CallError(p_persona, v, call)
       IN  IF exc # NoError
           THEN p_run' = [p_run EXCEPT ![v].phase = "failed",
                                       ![v].error = exc]
           ELSE p_run' = [p_run EXCEPT
                    ![v].phase = "awaiting",
                    ![v].calls = Append(@, [attr |-> call.attr,
                                            args |-> call.args,
                                            client |-> ClientOf(p_persona, v)])]
    /\ UNCHANGED <<notPipeVars, p_persona, p_ambient, p_results>>

\* The inference of the stage call ends: with a prediction, and forward goes
\* on to the next call or returns; or with an exception, and forward raises.
StageFinish(v) ==
    /\ p_run[v].phase = "awaiting"
    /\ LET i == p_run[v].pc
       IN  IF p_results[i] = "error"
           THEN p_run' = [p_run EXCEPT ![v].phase = "failed",
                                       ![v].error = TransientInferenceError]
           ELSE IF i = Len(ForwardCalls(p_persona))
           THEN p_run' = [p_run EXCEPT ![v].phase = "done",
                                       ![v].finished = @ \cup {i},
                                       ![v].out = OutputOf(p_persona)]
           ELSE p_run' = [p_run EXCEPT ![v].phase = "ready",
                                       ![v].finished = @ \cup {i},
                                       ![v].pc = i + 1]
    /\ UNCHANGED <<notPipeVars, p_persona, p_ambient, p_results>>

(***************************************************************************)
(* From Metadata(...) to the client of an agent: what is checked on the    *)
(* way.                                                                    *)
(***************************************************************************)
EmptyModel == ""
UnsupportedProvider == "bogus"

\* The model and provider arguments Metadata(...) is called with.
ModelInputs == {"openai/gpt-4o", EmptyModel}
ProviderInputs == ProviderMembers \cup ProviderValues \cup {UnsupportedProvider}

\* The update_metadata calls made on the configuration before it is bound.
ConfigKwargs ==
    {<<[key |-> "model", value |-> EmptyModel]>>,
     <<[key |-> "provider", value |-> UnsupportedProvider]>>,
     <<[key |-> "provider", value |-> "ProviderType.ANTHROPIC"]>>}

ValidationError == "pydantic.ValidationError"
ProviderAttributeError == "AttributeError: 'str' object has no attribute 'value'"

\* Metadata(model=..., provider=..., ...): pydantic takes any str as model,
\* and as provider a ProviderType member or the value of one.
ConstructMetadata(model, provider) ==
    /\ c_phase = "none"
    /\ c_args' = [model |-> model, provider |-> provider]
    /\ IF provider \in ProviderMembers \cup ProviderValues
       THEN /\ c_metadata' =
                 [DefaultMetadata EXCEPT
                     !.model = model,
                     !.provider = IF provider \in ProviderMembers
                                  THEN provider ELSE ProviderMember(provider)]
            /\ c_phase' = "metadata"
            /\ c_error' = NoError
       ELSE /\ c_phase' = "failed"
            /\ c_error' = ValidationError
            /\ UNCHANGED c_metadata
    /\ UNCHANGED <<notConfigVars>>

\* Management(metadata).update_metadata before the configuration is bound.
ConfigUpdateMetadata(kwargs) ==
    /\ c_phase = "metadata"
    /\ c_metadata' = update_metadata(c_metadata, kwargs).metadata
    /\ UNCHANGED <<notConfigVars, c_args, c_phase, c_error>>

\* The exception get_lm raises: self.metadata.provider.value needs a member;
\* the model id is passed on as it is.
GetLmError(md) ==
    IF md.provider \in ProviderMembers THEN NoError ELSE ProviderAttributeError

\* An agent is constructed from the Metadata: __init__ calls get_lm.
BindAgent ==
    /\ c_phase = "metadata"
    /\ IF GetLmError(c_metadata) = NoError
       THEN c_phase' = "bound" /\ c_error' = NoError
       ELSE c_phase' = "failed" /\ c_error' = GetLmError(c_metadata)
    /\ UNCHANGED <<notConfigVars, c_args, c_metadata>>

(***************************************************************************)
(* The agents routes: api/v1/agents/routes.py.                             *)
(***************************************************************************)
AgentPrefix == <<"a","g","e","n","t","_">>
AgentPrefixCap == <<"A","g","e","n","t","_">>

\* The PersonaType values, character by character.
StrAnalyst == <<"a","n","a","l","y","s","t">>
StrCreative == <<"c","r","e","a","t","i","v","e">>
StrResearcher == <<"r","e","s","e","a","r","c","h","e","r">>
StrAdvisor == <<"a","d","v","i","s","o","r">>
StrMentor == <<"m","e","n","t","o","r">>
PersonaTypeValues ==
    {StrAnalyst, StrCreative, StrResearcher, StrAdvisor, StrMentor}

\* The agent_id values of the requests: up to two leading pieces followed
\* by a persona value or something that is none.
AgentIdPieces == {<<>>, AgentPrefix, AgentPrefixCap, <<"x">>}
AgentIdBodies == PersonaTypeValues \cup {<<>>, <<"m","e","n">>, StrMaybe}
AgentIdInputs ==
    {a \o b \o c : a \in AgentIdPieces, b \in AgentIdPieces,
                    c \in AgentIdBodies}

\* str.startswith
StartsWith(s, prefix) ==
    /\ Len(s) >= Len(prefix)
    /\ SubSeq(s, 1, Len(prefix)) = prefix

\* str.replace(old, new): every occurrence of old, from the left.
RECURSIVE Replace(_, _, _)
Replace(s, old, new) ==
    IF Len(s) < Len(old) THEN s
    ELSE IF SubSeq(s, 1, Len(old)) = old
    THEN new \o Replace(SubSeq(s, Len(old) + 1, Len(s)), old, new)
    ELSE <<Head(s)>> \o Replace(Tail(s), old, new)

\* The status code of get_agent_status and of reset_agent: lines 131-140,
\* 291-299.  The HTTPException raised inside the try is re-raised as it is.
AgentStatusCode(agent_id) ==
    IF ~StartsWith(agent_id, AgentPrefix) THEN 400
    ELSE IF Replace(agent_id, AgentPrefix, <<>>) \in PersonaTypeValues
    THEN 200
    ELSE 404

\* GET /{agent_id}
get_agent_status(agent_id) ==
    /\ ag_route' = "get_agent_status"
    /\ ag_agent_id' = agent_id
    /\ ag_status_code' = AgentStatusCode(agent_id)
    /\ UNCHANGED <<notAgentApiVars>>

\* POST /{agent_id}/reset
reset_agent(agent_id) ==
    /\ ag_route' = "reset_agent"
    /\ ag_agent_id' = agent_id
    /\ ag_status_code' = AgentStatusCode(agent_id)
    /\ UNCHANGED <<notAgentApiVars>>

(***************************************************************************)
(* health_check: infrastructure/monitoring/health.py.  Percentages are in  *)
(* tenths of a percent.                                                    *)
(***************************************************************************)
cpu_threshold == 800
memory_threshold == 850

\* The readings of psutil.cpu_percent() and psutil.virtual_memory().percent.
CpuReadings ==
    {0, 500, cpu_threshold - 1, cpu_threshold, cpu_threshold + 1, 1000}
MemoryReadings ==
    {0, 500, memory_threshold - 1, memory_threshold, memory_threshold + 1,
     1000}

HealthInputs ==
    [cpu_usage : CpuReadings, memory_percent : MemoryReadings,
     psutil_raises : BOOLEAN, settings_raises : BOOLEAN]

\* _check_system_resources: lines 315-351.
check_system_resources(in) ==
    IF in.psutil_raises THEN "unhealthy"
    ELSE IF in.cpu_usage > cpu_threshold \/ in.memory_percent > memory_threshold
    THEN "warning"
    ELSE "healthy"

\* The checks dict of health_check, each check by its status: lines 59-72.
\* The first four checks return fixed values.
ChecksOf(in) ==
    [database |-> "healthy", ai_services |-> "healthy", cache |-> "healthy",
     external_services |-> "healthy",
     system_resources |-> check_system_resources(in)]

\* Mutant of OverallStatus: only an unhealthy check counts.
OverallStatusWarningOk(checks) ==
    IF \A c \in DOMAIN checks : checks[c] # "unhealthy"
    THEN "healthy" ELSE "unhealthy"

\* all(check.get("status") == "healthy" ...): lines 75-76.
OverallStatus(checks) ==
    IF \A c \in DOMAIN checks : checks[c] = "healthy"
    THEN "healthy" ELSE "unhealthy"

\* The response of the except branch: lines 102-115.
FailedHealthResponse ==
    [status |-> "unhealthy", version |-> "unknown", failed |-> TRUE,
     system_resources |-> "absent"]

\* GET /health: lines 44-115.  The response keeps the overall status, the
\* version and the status of the system_resources check.
health_check(in) ==
    /\ h_input' = in
    /\ h_response' =
          IF in.settings_raises THEN FailedHealthResponse
          ELSE [status |-> OverallStatus(ChecksOf(in)), version |-> "1.0.0",
                failed |-> FALSE,
                system_resources |-> ChecksOf(in).system_resources]
    /\ UNCHANGED <<notHealthVars>>

NoHealthResponse ==
    [status |-> NoObject, version |-> NoObject, failed |-> FALSE,
     system_resources |-> NoObject]

(***************************************************************************)
(* CompressionMiddleware: api/middleware/compression_middleware.py.        *)
(* A body is a sequence of bytes; what is sent is the body together with   *)
(* the coding applied to it, so that a compressed body differs from the    *)
(* body it was made from and can be decoded back to it.                    *)
(***************************************************************************)
MaxBodyLen == 1

Bytes == {0, 1}

Bodies == UNION {[1..n -> Bytes] : n \in 0..MaxBodyLen}

\* minimum_size is a parameter of __init__: line 19.
MinimumSizes == 0..(MaxBodyLen + 1)

\* compression_level: int = 7, line 19.
compression_level == 7

compressible_types ==
    {"application/json", "application/javascript", "application/xml",
     "text/html", "text/css", "text/javascript", "text/plain", "text/xml",
     "application/rss+xml", "application/atom+xml", "image/svg+xml"}

StrGzip == <<"g","z","i","p">>
StrDeflate == <<"d","e","f","l","a","t","e">>

\* Accept-Encoding headers of the requests; <<>> is the absent header, which
\* request.headers.get("accept-encoding", "") reads as "".
AcceptEncodings ==
    {<<>>, <<"G","Z","i","p">>, StrDeflate,
     StrGzip \o <<",", " ">> \o StrDeflate, <<"b","r">>}

NoHeader == "none"

\* content-encoding headers of the responses of the application.
ContentEncodings == {NoHeader, "br"}

\* content-type headers of the responses: the media type, optional blanks
\* around it and an optional parameter after ";".  An absent header has the
\* media type "".
ContentTypes ==
    {[media |-> "application/json", blanks |-> TRUE,
      params |-> "charset=utf-8"],
     [media |-> "image/png", blanks |-> FALSE, params |-> ""],
     [media |-> "", blanks |-> FALSE, params |-> ""]}

Responses ==
    [content_encoding : ContentEncodings, content_type : ContentTypes,
     body : Bodies]

\* `sub in s`
Contains(s, sub) ==
    \E i \in 1..(Len(s) - Len(sub) + 1) :
        SubSeq(s, i, i + Len(sub) - 1) = sub

\* The bytes sent for a body that no coding was applied to.
Identity(body) == [coding |-> "identity", level |-> 0, data |-> body]

\* gzip.compress(body, compresslevel=level): line 119.
GzipCompress(body, level) ==
    [coding |-> "gzip", level |-> level, data |-> body]

\* zlib.compress(body, level=level): line 127.
ZlibCompress(body, level) ==
    [coding |-> "zlib", level |-> level, data |-> body]

\* _should_compress: lines 102-111.
should_compress(resp) ==
    /\ resp.content_encoding = NoHeader
    /\ resp.content_type.media \in compressible_types

\* _compress_body: lines 113-132.
compress_body(body, supports_gzip, supports_deflate) ==
    IF supports_gzip
    THEN [body |-> GzipCompress(body, compression_level),
          encoding |-> "gzip"]
    ELSE IF supports_deflate
    THEN [body |-> ZlibCompress(body, compression_level),
          encoding |-> "deflate"]
    ELSE [body |-> Identity(body), encoding |-> ""]

\* A resp as it leaves the middleware.
Delivered(body, content_encoding, vary) ==
    [raised |-> NoError, body |-> body,
     content_encoding |-> content_encoding, vary |-> vary]

\* dispatch raised: no resp of the middleware exists.
DispatchRaised(exc) ==
    [raised |-> exc, body |-> Identity(<<>>), content_encoding |-> NoHeader,
     vary |-> NoHeader]

\* dispatch: lines 40-100.  The ratio of line 77 divides by len(body).
DispatchResult(minimum_size, accept_encoding, resp) ==
    LET supports_gzip == Contains(Lower(accept_encoding), StrGzip)
        supports_deflate == Contains(Lower(accept_encoding), StrDeflate)
        passed == Delivered(Identity(resp.body),
                            resp.content_encoding, NoHeader)
        compressed ==
            compress_body(resp.body, supports_gzip, supports_deflate)
    IN  IF ~(supports_gzip \/ supports_deflate) THEN passed
        ELSE IF ~should_compress(resp) THEN passed
        ELSE IF Len(resp.body) < minimum_size THEN passed
        ELSE IF Len(resp.body) = 0
        THEN DispatchRaised("ZeroDivisionError")
        ELSE Delivered(compressed.body, compressed.encoding,
                       "Accept-Encoding")

NoDispatch ==
    [raised |-> NoError, body |-> Identity(<<>>),
     content_encoding |-> NoObject, vary |-> NoObject]

\* Before a request arrives: no Accept-Encoding and no response yet.
NoRequest == <<>>
NoResponse ==
    [content_encoding |-> NoHeader,
     content_type |-> [media |-> "", blanks |-> FALSE, params |-> ""],
     body |-> <<>>]

\* The requests in flight at a time: dispatch is a coroutine, and while one
\* call of it is suspended another request can enter and leave.
RequestIds == {"A", "B"}

\* A request for which dispatch has not been called.
NoDispatchCall ==
    [at |-> "none", accept_encoding |-> NoRequest, response |-> NoResponse,
     result |-> NoDispatch]

SupportsGzip(accept_encoding) == Contains(Lower(accept_encoding), StrGzip)
SupportsDeflate(accept_encoding) ==
    Contains(Lower(accept_encoding), StrDeflate)

\* CompressionMiddleware.__init__: lines 19-22.
CompressionMiddleware__init__(minimum_size) ==
    /\ cm_minimum_size' = minimum_size
    /\ cm_dispatch' = [r \in RequestIds |-> NoDispatchCall]
    /\ UNCHANGED <<notCompressVars>>

\* dispatch is called with a request and runs to its first await, the
\* call_next of line 48 or of line 51.
dispatch(r, accept_encoding) ==
    /\ cm_dispatch[r].at \in {"none", "returned"}
    /\ cm_dispatch' =
           [cm_dispatch EXCEPT ![r] =
               [NoDispatchCall EXCEPT !.at = "call_next",
                                      !.accept_encoding = accept_encoding]]
    /\ UNCHANGED <<notCompressVars, cm_minimum_size>>

\* call_next returns the response of the application: dispatch returns it
\* (lines 48, 55) or goes on to read its body (line 59).
call_next(r, resp) ==
    /\ cm_dispatch[r].at = "call_next"
    /\ LET accept == cm_dispatch[r].accept_encoding
       IN  cm_dispatch' =
               [cm_dispatch EXCEPT
                   ![r].response = resp,
                   ![r].at =
                       IF (SupportsGzip(accept) \/ SupportsDeflate(accept))
                          /\ should_compress(resp)
                       THEN "body_iterator" ELSE "returned",
                   ![r].result =
                       IF (SupportsGzip(accept) \/ SupportsDeflate(accept))
                          /\ should_compress(resp)
                       THEN NoDispatch
                       ELSE DispatchResult(cm_minimum_size, accept, resp)]
    /\ UNCHANGED <<notCompressVars, cm_minimum_size>>

\* The body has been read from response.body_iterator: lines 58-69.  A
\* short body is returned; otherwise dispatch awaits _compress_body.
body_iterator(r) ==
    /\ cm_dispatch[r].at = "body_iterator"
    /\ LET d == cm_dispatch[r]
       IN  cm_dispatch' =
               [cm_dispatch EXCEPT
                   ![r].at = IF Len(d.response.body) < cm_minimum_size
                             THEN "returned" ELSE "_compress_body",
                   ![r].result =
                       IF Len(d.response.body) < cm_minimum_size
                       THEN DispatchResult(cm_minimum_size,
                                           d.accept_encoding, d.response)
                       ELSE NoDispatch]
    /\ UNCHANGED <<notCompressVars, cm_minimum_size>>

\* The executor has compressed the body: lines 72-100.
compress_body_returns(r) ==
    /\ cm_dispatch[r].at = "_compress_body"
    /\ LET d == cm_dispatch[r]
       IN  cm_dispatch' =
               [cm_dispatch EXCEPT
                   ![r].at = "returned",
                   ![r].result =
                       DispatchResult(cm_minimum_size, d.accept_encoding,
                                      d.response)]
    /\ UNCHANGED <<notCompressVars, cm_minimum_size>>

(***************************************************************************)
(* KowAIBuildSystem: src/build.py.                                         *)
(***************************************************************************)
\* The calls of build in the order of lines 421-428.
BuildSteps ==
    <<"setup_directories", "validate_environment", "build_backend",
      "build_frontend", "apply_c7_optimizations",
      "create_deployment_package", "generate_build_manifest",
      "print_build_summary">>

\* Where the process is when build is called.
WorkingDirs == {"project_root", "elsewhere"}

\* validate_environment raises RuntimeError for an old Python or a missing
\* uv: lines 60-65.
ValidateOutcomes == {"ok", "RuntimeError"}

\* build_backend: the script succeeds, exits non-zero (check=True raises
\* CalledProcessError), cannot be started (subprocess.run raises
\* FileNotFoundError), or backend_dir is missing (os.chdir raises).
BackendOutcomes ==
    {"ok", "CalledProcessError", "FileNotFoundError",
     "chdir FileNotFoundError"}

\* build_frontend: no package.json, npm succeeds, npm exits non-zero, or
\* npm is not installed (subprocess.run raises FileNotFoundError).
FrontendOutcomes == {"skipped", "ok", "CalledProcessError", "FileNotFoundError"}

\* apply_c7_optimizations runs gzip, which may be missing: lines 186-194
\* catch CalledProcessError only.
GzipOutcomes == {"ok", "FileNotFoundError"}

BuildEnvs ==
    [cwd : WorkingDirs, validate : ValidateOutcomes,
     backend : BackendOutcomes, frontend : FrontendOutcomes,
     gzip : GzipOutcomes]

NoExit == -1
BuildDone == Len(BuildSteps) + 1

\* A frontend build that fails: npm exits non-zero or cannot be run.
FrontendFails(env) ==
    env.frontend \in {"CalledProcessError", "FileNotFoundError"}

BackendFails(env) == env.backend # "ok"

\* The directory the step changes to before it runs its commands, or
\* NoObject when it changes to none: lines 97-98, 142-143.
DirOf(step, env) ==
    IF step = "build_backend" /\ env.backend # "chdir FileNotFoundError"
    THEN "backend_dir"
    ELSE IF step = "build_frontend" /\ env.frontend # "skipped"
    THEN "frontend_dir"
    ELSE NoObject

\* The exception that leaves the step, or NoError.  build_backend re-raises
\* CalledProcessError (line 128); build_frontend swallows it (line 169);
\* neither catches another exception.  print_build_summary reads
\* manifest['config'] (line 395), a key generate_build_manifest does not
\* write (lines 345-369), and raises KeyError in every build that reaches
\* it.
RaisedBy(step, env) ==
    IF step = "validate_environment" /\ env.validate # "ok"
    THEN env.validate
    ELSE IF step = "build_backend" /\ env.backend # "ok"
    THEN IF env.backend = "chdir FileNotFoundError"
         THEN "FileNotFoundError" ELSE env.backend
    ELSE IF step = "build_frontend" /\ env.frontend = "FileNotFoundError"
    THEN env.frontend
    ELSE IF step = "apply_c7_optimizations" /\ env.gzip # "ok"
    THEN env.gzip
    ELSE IF step = "print_build_summary"
    THEN "KeyError"
    ELSE NoError

\* finally: os.chdir(original_cwd): lines 129-130, 170-171.
CwdAfter(step, env, cwd) == cwd

\* build is called: lines 415-419.
StartBuild(env) ==
    /\ b_env' = env
    /\ b_pc' = 1
    /\ b_log' = <<>>
    /\ b_cwd' = env.cwd
    /\ b_exit' = NoExit
    /\ UNCHANGED <<notBuildVars>>

\* build calls its next step; an exception that leaves the step is caught
\* by `except Exception` and answered with sys.exit(1): lines 431-433.
RunStep(step) ==
    /\ b_pc \in DOMAIN BuildSteps
    /\ BuildSteps[b_pc] = step
    /\ LET raised == RaisedBy(step, b_env)
       IN  /\ b_log' = Append(b_log, [step |-> step,
                                      ran_in |-> DirOf(step, b_env),
                                      raised |-> raised])
           /\ b_cwd' = CwdAfter(step, b_env, b_cwd)
           /\ b_pc' = IF raised # NoError \/ b_pc = Len(BuildSteps)
                      THEN BuildDone ELSE b_pc + 1
           /\ b_exit' = IF raised # NoError THEN 1
                        ELSE IF b_pc = Len(BuildSteps) THEN 0 ELSE NoExit
    /\ UNCHANGED <<notBuildVars, b_env>>

setup_directories == RunStep("setup_directories")
validate_environment == RunStep("validate_environment")
build_backend == RunStep("build_backend")
build_frontend == RunStep("build_frontend")
apply_c7_optimizations == RunStep("apply_c7_optimizations")
create_deployment_package == RunStep("create_deployment_package")
generate_build_manifest == RunStep("generate_build_manifest")
print_build_summary == RunStep("print_build_summary")

Init ==
    /\ flowStatus = "pending"
    /\ taskState = [t \in Tasks |-> "notstarted"]
    /\ attempts = [t \in Tasks |-> 0]
    /\ transients = [t \in Tasks |-> 0]
    /\ fatals = [t \in Tasks |-> 0]
    /\ lastError = [t \in Tasks |-> NoError]
    /\ delayed = [t \in Tasks |-> 0]
    /\ sleepLeft = 0
    /\ hung = FALSE
    /\ sc_result = NoString
    /\ security_passed = FALSE
    /\ response = NoString
    /\ error = NoError
    /\ errorAttempt = 0
    /\ clock = 0
    /\ started_at = NoTime
    /\ completed_at = NoTime
    /\ now = 0
    /\ workflows = {}
    /\ scheduled = {}
    /\ execLog = <<>>
    /\ produced = {}
    /\ reported = <<>>
    /\ um_metadata = DefaultMetadata
    /\ um_before = DefaultMetadata
    /\ um_kwargs = <<>>
    /\ um_raised = NoError
    /\ allocated = {}
    /\ heap = [m \in MetadataIds |-> DefaultMetadata]
    /\ manager = NoObject
    /\ agents = [a \in AgentIds |-> NoAgent]
    /\ runs = [r \in RunIds |-> NoObject]
    /\ p_persona = NoObject
    /\ p_ambient = NoLm
    /\ p_results = [k \in 1..MaxStages |-> "ok"]
    /\ p_run = [v \in Variants |-> NoRun]
    /\ c_args = [model |-> "openai/gpt-4o", provider |-> "ProviderType.OPENAI"]
    /\ c_metadata = DefaultMetadata
    /\ c_phase = "none"
    /\ c_error = NoError
    /\ ag_route = NoObject
    /\ ag_agent_id = <<>>
    /\ ag_status_code = 0
    /\ h_input = [cpu_usage |-> 0, memory_percent |-> 0,
                  psutil_raises |-> FALSE, settings_raises |-> FALSE]
    /\ h_response = NoHealthResponse
    /\ cm_minimum_size = MaxBodyLen + 1
    /\ cm_dispatch = [r \in RequestIds |-> NoDispatchCall]
    /\ b_env = [cwd |-> "project_root", validate |-> "ok", backend |-> "ok",
                frontend |-> "ok", gzip |-> "ok"]
    /\ b_pc = 0
    /\ b_log = <<>>
    /\ b_cwd = "project_root"
    /\ b_exit = NoExit

Elapsed == clock - started_at

\* Mutant of TimedOut: the timeout taken in tenths of a second.
TimedOutEarly(elapsed) == elapsed * 10 >= timeout_seconds

\* The flow engine's deadline test for timeout_seconds.
TimedOut(elapsed) == elapsed >= timeout_seconds

\* Mutant of ShouldRetry: a fatal error is not retried.
ShouldRetryTransientOnly(t, exc) ==
    exc = TransientInferenceError /\ attempts[t] - 1 < Retries(t)

\* The task engine retries a failed attempt while fewer than `retries`
\* retries have been made; no retry_condition_fn is configured, so the
\* exception's class plays no part.
ShouldRetry(t, exc) == attempts[t] - 1 < Retries(t)

\* Mutant of SecurityPassed: the result's truthiness instead of its value.
SecurityPassedTruthy(result) == Len(result) > 0

\* Mutant of SecurityPassed: the result is compared as it is.
SecurityPassedExact(result) == result = StrPassed

\* return result.lower() == "passed"
SecurityPassed(result) == Lower(result) = StrPassed

\* Mutant of FirstTask: the two awaits of the flow swapped.
FirstTaskSwapped == "get_response"

\* The flow calls security_check first: line 55.
FirstTask == "security_check"

(***************************************************************************)
(* sequential_chat_processing_flow starts running and awaits               *)
(* security_check(agent, message), whose first attempt calls the agent.    *)
(***************************************************************************)
StartFlow ==
    /\ flowStatus = "pending"
    /\ flowStatus' = "running"
    /\ started_at' = clock
    /\ taskState' = [taskState EXCEPT ![FirstTask] = "running"]
    /\ attempts' = [attempts EXCEPT ![FirstTask] = 1]
    /\ UNCHANGED <<notFlowVars, transients, fatals, lastError, delayed, sleepLeft, hung, sc_result,
                   security_passed, response, error, errorAttempt, clock, completed_at>>

\* Mutant of PropagatedAttempt: the first attempt's exception is kept.
PropagatedAttemptFirst(t) == 1

\* A task that fails for good ends in the state of its last attempt, whose
\* exception `await task(...)` re-raises in the flow.
PropagatedAttempt(t) == attempts[t]

\* The flow run ends failed with exception exc, raised by attempt `attempt`
\* of a task (0: raised by the flow or the flow engine).
FailFlow(exc, attempt) ==
    /\ flowStatus' = "failed"
    /\ error' = exc
    /\ errorAttempt' = attempt
    /\ completed_at' = clock

(***************************************************************************)
(* The agent call of security_check returns result: the task returns       *)
(* result.lower() == "passed" (line 28); the flow raises ValueError when   *)
(* that is false (lines 56-57) and otherwise awaits get_response (line 59).*)
(***************************************************************************)
SecurityCheckReturn(result) ==
    /\ flowStatus = "running"
    /\ taskState["security_check"] = "running"
    /\ ~hung
    /\ sc_result' = result
    /\ security_passed' = SecurityPassed(result)
    /\ IF SecurityPassed(result)
       THEN /\ taskState' = [taskState EXCEPT !["security_check"] = "completed",
                                              !["get_response"] = "running"]
            /\ attempts' = [attempts EXCEPT !["get_response"] = 1]
            /\ UNCHANGED <<flowStatus, error, errorAttempt, completed_at>>
       ELSE /\ taskState' = [taskState EXCEPT !["security_check"] = "completed"]
            /\ FailFlow(SecurityRejected, 0)
            /\ UNCHANGED attempts
    /\ UNCHANGED <<notFlowVars, transients, fatals, lastError, delayed, sleepLeft, hung, response,
                   clock, started_at>>

(***************************************************************************)
(* The agent call of get_response returns result: the task returns it      *)
(* (line 40) and the flow returns it (line 60).                            *)
(***************************************************************************)
GetResponseReturn(result) ==
    /\ flowStatus = "running"
    /\ taskState["get_response"] = "running"
    /\ ~hung
    /\ taskState' = [taskState EXCEPT !["get_response"] = "completed"]
    /\ response' = result
    /\ flowStatus' = "completed"
    /\ completed_at' = clock
    /\ UNCHANGED <<notFlowVars, attempts, transients, fatals, lastError, delayed, sleepLeft, hung,
                   sc_result, security_passed, error, errorAttempt, clock, started_at>>

(***************************************************************************)
(* The agent call of task t raises exc.  The task engine either schedules  *)
(* a retry after retry_delay_seconds or fails the task; a failed task      *)
(* re-raises in the flow, whose except clause re-raises (lines 62-63).     *)
(***************************************************************************)
TaskRaise(t, exc) ==
    /\ flowStatus = "running"
    /\ taskState[t] = "running"
    /\ ~hung
    /\ lastError' = [lastError EXCEPT ![t] = exc]
    /\ transients' = [transients EXCEPT ![t] =
                          @ + (IF exc = TransientInferenceError THEN 1 ELSE 0)]
    /\ fatals' = [fatals EXCEPT ![t] =
                      @ + (IF exc = FatalInferenceError THEN 1 ELSE 0)]
    /\ IF ShouldRetry(t, exc)
       THEN /\ taskState' = [taskState EXCEPT ![t] = "retrying"]
            /\ sleepLeft' = RetryDelaySeconds(t)
            /\ delayed' = [delayed EXCEPT ![t] = @ + RetryDelaySeconds(t)]
            /\ UNCHANGED <<flowStatus, error, errorAttempt, completed_at>>
       ELSE /\ taskState' = [taskState EXCEPT ![t] = "failed"]
            /\ FailFlow(exc, PropagatedAttempt(t))
            /\ UNCHANGED <<sleepLeft, delayed>>
    /\ UNCHANGED <<notFlowVars, attempts, hung, sc_result, security_passed, response,
                   clock, started_at>>

SecurityCheckRaise(exc) == TaskRaise("security_check", exc)

GetResponseRaise(exc) == TaskRaise("get_response", exc)

\* Mutant of DelayOver: the retry is made without sleeping the delay.
DelayOverAtOnce == TRUE

\* The retry delay is over once none of it is left to sleep.
DelayOver == sleepLeft = 0

(***************************************************************************)
(* The retry delay of task t is over: the next attempt calls the agent.    *)
(***************************************************************************)
RetryAttempt(t) ==
    /\ flowStatus = "running"
    /\ taskState[t] = "retrying"
    /\ DelayOver
    /\ taskState' = [taskState EXCEPT ![t] = "running"]
    /\ attempts' = [attempts EXCEPT ![t] = @ + 1]
    /\ UNCHANGED <<notFlowVars, flowStatus, transients, fatals, lastError, delayed, sleepLeft, hung,
                   sc_result, security_passed, response, error, errorAttempt, clock,
                   started_at, completed_at>>

(***************************************************************************)
(* The outstanding agent call turns out never to return.                   *)
(***************************************************************************)
AgentHangs ==
    /\ flowStatus = "running"
    /\ \E t \in Tasks : taskState[t] = "running"
    /\ ~hung
    /\ hung' = TRUE
    /\ UNCHANGED <<notFlowVars, flowStatus, taskState, attempts, transients, fatals, lastError, delayed,
                   sleepLeft, sc_result, security_passed, response, error, errorAttempt,
                   clock, started_at, completed_at>>

Max(a, b) == IF a >= b THEN a ELSE b

(***************************************************************************)
(* Time passes while the run awaits an agent call or sleeps a retry delay. *)
(* It does not pass the flow's deadline while the run is still running.    *)
(***************************************************************************)
Tick ==
    /\ flowStatus = "running"
    /\ ~TimedOut(Elapsed)
    /\ clock' = clock + TimeStep
    /\ sleepLeft' = Max(0, sleepLeft - TimeStep)
    /\ UNCHANGED <<notFlowVars, flowStatus, taskState, attempts, transients, fatals, lastError, delayed,
                   hung, sc_result, security_passed, response, error, errorAttempt,
                   started_at, completed_at>>

(***************************************************************************)
(* timeout_seconds have elapsed: the flow engine cancels what the run      *)
(* awaits (an agent call or a retry delay) and fails the run.              *)
(***************************************************************************)
FlowTimeout ==
    /\ flowStatus = "running"
    /\ TimedOut(Elapsed)
    /\ taskState' = [t \in Tasks |->
                        IF taskState[t] \in {"running", "retrying"}
                        THEN "crashed" ELSE taskState[t]]
    /\ FailFlow(WorkflowTimeout, 0)
    /\ UNCHANGED <<notFlowVars, attempts, transients, fatals, lastError, delayed, sleepLeft, hung,
                   sc_result, security_passed, response, clock, started_at>>

(***************************************************************************)
(* The workflow routes: app/api/v1/workflows/routes.py.                    *)
(***************************************************************************)
\* Bounds of the routes' model.
MaxNow == 1
MaxWorkflows == 1

\* class WorkflowType
WorkflowTypes == {"sequential_chat", "batch_processing", "periodic_analysis"}

\* class WorkflowStatus
PENDING == "pending"
RUNNING == "running"
COMPLETED == "completed"
FAILED == "failed"
CANCELLED == "cancelled"
WorkflowStatus == {PENDING, RUNNING, COMPLETED, FAILED, CANCELLED}

\* class PersonaType
PersonaTypes == {"analyst", "creative", "researcher", "advisor", "mentor"}

\* The persona_type entries of the request parameters the model draws from;
\* "absent" stands for a parameters dict without the key.
PersonaParams == {"absent", "mentor"}

\* Progress in percent, duration in tenths of a second.
NoDuration == -1

\* f"wf_{request.workflow_type.value}_{datetime.utcnow().timestamp()}"
TriggerId(type, ts) == <<"wf", type, "at", ts>>
\* f"wf_batch_{datetime.utcnow().timestamp()}"
BatchId(ts) == <<"wf", "batch", "at", ts>>
\* f"wf_sequential_chat_{i}"
MockId(i) == <<"wf", "sequential_chat", "no", i>>

\* Mutant of PendingRecord: completed_at stamped at creation.
PendingRecordStamped(id, type, ts) ==
    [workflow_id |-> id, workflow_type |-> type, status |-> PENDING,
     created_at |-> ts, started_at |-> NoTime, completed_at |-> ts,
     duration |-> NoDuration, progress |-> 0, has_result |-> FALSE,
     error |-> NoError]

\* WorkflowStatusResponse(..., status=WorkflowStatus.PENDING,
\*     created_at=datetime.utcnow(), progress=0.0, ...): lines 97-104, 315-325
PendingRecord(id, type, ts) ==
    [workflow_id |-> id, workflow_type |-> type, status |-> PENDING,
     created_at |-> ts, started_at |-> NoTime, completed_at |-> NoTime,
     duration |-> NoDuration, progress |-> 0, has_result |-> FALSE,
     error |-> NoError]

\* The mock record of list_workflows and get_workflow_status: lines 187-198,
\* 253-264.
MockRecord(id, ts) ==
    [workflow_id |-> id, workflow_type |-> "sequential_chat",
     status |-> COMPLETED, created_at |-> ts, started_at |-> ts,
     completed_at |-> ts, duration |-> 25, progress |-> 100,
     has_result |-> TRUE, error |-> NoError]

\* The executor trigger_workflow schedules for a workflow type: lines 107-124.
\* Mutant of ExecutorOf: every type gets the chat executor.
ExecutorOfChatOnly(type) == "_execute_sequential_chat_workflow"

\* The if/elif chain of trigger_workflow: lines 107-124.
ExecutorOf(type) ==
    CASE type = "sequential_chat" -> "_execute_sequential_chat_workflow"
      [] type = "batch_processing" -> "_execute_batch_processing_workflow"
      [] type = "periodic_analysis" -> "_execute_periodic_analysis_workflow"

\* d2 is d1 with key k set to v.
Put(d, k, v) == [x \in DOMAIN d \cup {k} |-> IF x = k THEN v ELSE d[x]]

\* Time passes between requests.
ApiTick ==
    /\ now < MaxNow
    /\ now' = now + 1
    /\ UNCHANGED <<notApiVars, workflows, scheduled, execLog, produced, reported>>

(***************************************************************************)
(* POST /trigger: lines 74-156.                                            *)
(***************************************************************************)
trigger_workflow(type, persona) ==
    LET id == TriggerId(type, now) IN
    /\ Cardinality(workflows) < MaxWorkflows
    /\ workflows' = workflows \cup {id}
    /\ scheduled' = scheduled \cup
           {[fn |-> ExecutorOf(type), workflow_id |-> id, persona_type |-> persona]}
    /\ produced' = {PendingRecord(id, type, now)}
    /\ reported' = Put(reported, id, PendingRecord(id, type, now).status)
    /\ UNCHANGED <<notApiVars, now, execLog>>

\* workflow_type values of the requests: the WorkflowType values and one
\* that is none.
WorkflowTypeInputs == WorkflowTypes \cup {"unknown_type"}

\* POST /trigger with a workflow_type that is no WorkflowType value: the
\* request model is rejected before the handler runs; the answer is an
\* error and carries no status record.
trigger_workflow_rejected(type) ==
    /\ type \notin WorkflowTypes
    /\ produced' = {}
    /\ UNCHANGED <<notApiVars, now, workflows, scheduled, execLog, reported>>

(***************************************************************************)
(* POST /batch: lines 293-352.                                             *)
(***************************************************************************)
trigger_batch_processing ==
    LET id == BatchId(now) IN
    /\ Cardinality(workflows) < MaxWorkflows
    /\ workflows' = workflows \cup {id}
    /\ scheduled' = scheduled \cup
           {[fn |-> "_execute_batch_processing_workflow", workflow_id |-> id,
             persona_type |-> "absent"]}
    /\ produced' = {PendingRecord(id, "batch_processing", now)}
    /\ reported' = Put(reported, id, PendingRecord(id, "batch_processing", now).status)
    /\ UNCHANGED <<notApiVars, now, execLog>>

Min(a, b) == IF a <= b THEN a ELSE b

(***************************************************************************)
(* GET /: lines 159-231.  The records are those of                         *)
(* range(1, min(per_page + 1, 6)); the filters are not applied.            *)
(***************************************************************************)
list_workflows(per_page) ==
    /\ produced' = {MockRecord(MockId(i), now) : i \in 1..(Min(per_page + 1, 6) - 1)}
    /\ UNCHANGED <<notApiVars, now, workflows, scheduled, execLog, reported>>

(***************************************************************************)
(* GET /{workflow_id}: lines 234-290.                                      *)
(***************************************************************************)
get_workflow_status(id) ==
    /\ produced' = {MockRecord(id, now)}
    /\ reported' = Put(reported, id, MockRecord(id, now).status)
    /\ UNCHANGED <<notApiVars, now, workflows, scheduled, execLog>>

(***************************************************************************)
(* DELETE /{workflow_id}: lines 355-400.  Nothing is cancelled; the        *)
(* response says the workflow is cancelled.                                *)
(***************************************************************************)
cancel_workflow(id) ==
    /\ produced' = {}
    /\ reported' = Put(reported, id, CANCELLED)
    /\ UNCHANGED <<notApiVars, now, workflows, scheduled, execLog>>

(***************************************************************************)
(* A background task runs: lines 405-519.                                  *)
(* _execute_sequential_chat_workflow raises before any flow run exists:    *)
(* PersonaType(...) rejects the default "assistant", and the flow, whose   *)
(* parameters are (agent, message), is called with message, user_id,       *)
(* context and persona_type.  The batch and periodic executors await       *)
(* batch_processing_flow and periodic_analysis_flow, names bound by the    *)
(* import of lines 12-16 to flows the repository does not hold: what such  *)
(* a flow does is open, it returns or it raises.  Each executor logs the   *)
(* completion or catches the exception and logs it; none updates a status. *)
(***************************************************************************)
ExecutorCompleted == "completed successfully"
FlowException == "Exception"

\* What the awaited flow of a batch or periodic task does.
FlowOutcomes == {ExecutorCompleted, FlowException}

\* The exception _execute_sequential_chat_workflow catches: lines 416-421.
ExecutorError(task) ==
    IF task.persona_type \in PersonaTypes
    THEN "ParameterBindError" ELSE "ValueError"

\* The executor has logged "Executing ..." and is suspended in the await
\* of its flow: lines 456, 495.
ExecutorAwaitingFlow == "Executing"

\* The event loop starts the executor of the task.  The sequential executor
\* raises before its await and logs the exception in the same step; the
\* batch and periodic executors run to the await of their flow and return
\* to the event loop.
execute_background_task(task) ==
    /\ task \in scheduled
    /\ scheduled' = scheduled \ {task}
    /\ execLog' = Put(execLog, task.workflow_id,
                      IF task.fn = "_execute_sequential_chat_workflow"
                      THEN ExecutorError(task)
                      ELSE ExecutorAwaitingFlow)
    /\ UNCHANGED <<notApiVars, now, workflows, produced, reported>>

\* The awaited flow ends and the executor resumes: it logs the completion
\* (lines 459-466, 498-504) or the exception (lines 470-478, 508-516).
flow_ends(id, outcome) ==
    /\ id \in DOMAIN execLog
    /\ execLog[id] = ExecutorAwaitingFlow
    /\ execLog' = Put(execLog, id, outcome)
    /\ UNCHANGED <<notApiVars, now, workflows, scheduled, produced, reported>>

\* per_page values of the requests the model draws from.
PerPageValues == {0, 2, 20}

\* Workflow ids a caller asks about: the triggered ones and an unknown one.
UnknownId == <<"wf", "unknown", "at", 0>>
QueryIds == workflows \cup {UnknownId}

(***************************************************************************)
(* Properties.                                                             *)
(***************************************************************************)
TerminalStatus == {COMPLETED, FAILED, CANCELLED}

\* The task's retries are used up: it failed on attempt retries + 1.
BudgetExhausted(t) == taskState[t] = "failed" /\ attempts[t] = Retries(t) + 1

\* C1: get_response has begun (an attempt of it was started) only if
\* security_check has finished: returned its result or failed for good.
C1_SecurityBeforeResponse ==
    (attempts["get_response"] > 0 \/ taskState["get_response"] # "notstarted")
        => taskState["security_check"] \in {"completed", "failed"}

C1_Witness ==
    /\ flowStatus = "completed"
    /\ attempts["get_response"] > 0
    /\ taskState["security_check"] = "completed"

\* C2: when the security check yields "failed", the run is failed with the
\* security rejection as its error and get_response was never attempted.
C2_SecurityRejected ==
    (taskState["security_check"] = "completed" /\ sc_result = StrFailed)
        => /\ flowStatus = "failed"
           /\ error = SecurityRejected
           /\ attempts["get_response"] = 0
           /\ taskState["get_response"] = "notstarted"

C2_Witness ==
    /\ sc_result = StrFailed
    /\ flowStatus = "failed"
    /\ transients["security_check"] > 0

\* C3 as claimed: a task is never attempted more than 3 times, and a task
\* whose every attempt raised a transient error fails after exactly 3.
C3_ThreeAttempts ==
    \A t \in Tasks :
        /\ attempts[t] <= 3
        /\ (taskState[t] = "failed" /\ fatals[t] = 0) => attempts[t] = 3

\* What the tasks do instead: a task is never attempted more than 4 times
\* (the first attempt and retries=3 retries), and a task whose every attempt
\* raised a transient error fails, failing the run, after exactly 4
\* attempts.
C3_FourAttempts ==
    \A t \in Tasks :
        /\ attempts[t] <= 4
        /\ (taskState[t] = "failed" /\ fatals[t] = 0)
              => attempts[t] = 4 /\ transients[t] = 4 /\ flowStatus = "failed"
        /\ (transients[t] = 4 /\ fatals[t] = 0) => taskState[t] = "failed"

C3_Witness ==
    \E t \in Tasks :
        taskState[t] = "failed" /\ fatals[t] = 0 /\ transients[t] = 4

\* C4: a task whose first two attempts raised a transient error has not
\* failed; when it then completes it does so on its third attempt, after
\* two retry delays of retry_delay_seconds each, which have really elapsed.
C4_ThirdAttemptSucceeds ==
    \A t \in Tasks :
        (transients[t] = 2 /\ fatals[t] = 0)
            => /\ taskState[t] # "failed"
               /\ taskState[t] = "completed"
                    => /\ attempts[t] = 3
                       /\ delayed[t] = 2 * RetryDelaySeconds(t)
                       /\ clock - started_at >= 2 * RetryDelaySeconds(t)

C4_Witness ==
    /\ taskState["get_response"] = "completed"
    /\ transients["get_response"] = 2
    /\ fatals["get_response"] = 0
    /\ attempts["get_response"] = 3

\* C5 as claimed: an attempt that raised a fatal error is the task's last
\* (the task and the run are failed at once), and a security check that
\* did not pass fails the run with no further attempt.
C5_NoRetryAfterFatal ==
    /\ \A t \in Tasks :
          fatals[t] > 0 => taskState[t] = "failed" /\ flowStatus = "failed"
    /\ (sc_result # NoString /\ ~security_passed)
          => flowStatus = "failed" /\ taskState["security_check"] = "completed"

\* C6: a run fails with the timeout only when timeout_seconds have elapsed
\* since it started; once an agent call never returns, the run does end
\* failed with the timeout; and no attempt is started in a failed run.
C6_Timeout ==
    /\ [](error = WorkflowTimeout
            => flowStatus = "failed" /\ completed_at - started_at >= timeout_seconds)
    /\ [](hung => <>(flowStatus = "failed" /\ error = WorkflowTimeout))
    /\ [][flowStatus = "failed" => attempts' = attempts]_vars

C6_Witness ==
    /\ hung
    /\ flowStatus = "failed"
    /\ error = WorkflowTimeout
    /\ \E t \in Tasks : taskState[t] = "crashed" /\ attempts[t] > 1

\* The moves of a run's status that C7 allows.
ValidMove(a, b) ==
    \/ a = b
    \/ a = PENDING /\ b = RUNNING
    \/ a = RUNNING /\ b \in TerminalStatus

\* C7 as claimed: the status reported for a workflow only moves
\* pending -> running -> completed | failed | cancelled, and never leaves
\* completed, failed or cancelled.
C7_StatusMoves ==
    [][\A id \in DOMAIN reported :
          id \in DOMAIN reported' /\ ValidMove(reported[id], reported'[id])]_vars

\* C8: in every status record of a response, completed_at set implies a
\* status of completed, failed or cancelled.
C8_CompletedAtImpliesTerminal ==
    \A r \in produced : r.completed_at # NoTime => r.status \in TerminalStatus

C8_Witness ==
    /\ \E r \in produced : r.completed_at # NoTime /\ r.status = COMPLETED
    /\ \E r \in produced : r.workflow_id \in workflows

\* C9 as claimed: a failed run has a task whose retries are used up, or its
\* timeout has elapsed.
C9_FailedOnlyByBudgetOrTimeout ==
    flowStatus = "failed"
        => \/ \E t \in Tasks : BudgetExhausted(t)
           \/ error = WorkflowTimeout /\ completed_at - started_at >= timeout_seconds

\* C9 amended: a failed run has a task whose retries are used up, or its
\* timeout has elapsed, or its security check did not pass.
C9_FailedByBudgetTimeoutOrRejection ==
    flowStatus = "failed"
        => \/ \E t \in Tasks : BudgetExhausted(t)
           \/ error = WorkflowTimeout /\ completed_at - started_at >= timeout_seconds
           \/ /\ error = SecurityRejected
              /\ taskState["security_check"] = "completed"
              /\ ~security_passed

C9_Witness ==
    /\ flowStatus = "failed"
    /\ BudgetExhausted("get_response")
    /\ fatals["get_response"] > 0

\* C10 as claimed: "passed" gives true, "failed" gives false, and for any
\* other result the check raises a fatal error instead of returning false.
C10_OtherResultIsFatal ==
    sc_result # NoString
        => /\ sc_result = StrPassed => security_passed
           /\ sc_result = StrFailed => ~security_passed
           /\ sc_result \notin {StrPassed, StrFailed}
                 => /\ lastError["security_check"] = FatalInferenceError
                    /\ error = FatalInferenceError
                    /\ taskState["security_check"] # "completed"

\* C20: when a task has used up its retries on transient errors alone, the
\* run is failed and carries the exception of the task's last attempt.
C20_LastErrorCarried ==
    \A t \in Tasks :
        (taskState[t] = "failed" /\ fatals[t] = 0)
            => /\ flowStatus = "failed"
               /\ error = lastError[t]
               /\ error = TransientInferenceError
               /\ errorAttempt = attempts[t]
               /\ errorAttempt = Retries(t) + 1

C20_Witness ==
    /\ taskState["get_response"] = "failed"
    /\ fatals["get_response"] = 0
    /\ transients["get_response"] = 4
    /\ flowStatus = "failed"
    /\ errorAttempt > 1

\* The keys of kwargs, and the value kwargs gives key k.
KeysOf(kwargs) == {kwargs[i].key : i \in DOMAIN kwargs}
ValueOf(kwargs, k) == kwargs[CHOOSE i \in DOMAIN kwargs : kwargs[i].key = k].value

\* C11: an update_metadata call that names a key outside the Metadata fields
\* raises; a call that names fields only raises nothing and leaves every
\* named field at the given value and every other field as it was.
\* Violated: a key such as __doc__ is no field, passes hasattr and is
\* stored by setattr, and the call returns without an error.
C11_UpdateMetadata ==
    um_kwargs # <<>>
        => IF KeysOf(um_kwargs) \subseteq MetadataFields
           THEN /\ um_raised = NoError
                /\ \A f \in MetadataFields :
                      um_metadata[f] = IF f \in KeysOf(um_kwargs)
                                       THEN ValueOf(um_kwargs, f)
                                       ELSE um_before[f]
           ELSE um_raised # NoError

\* Apart from the underscore attributes, update_metadata does what C11
\* says.
UpdateMetadataWithoutUnderscore ==
    KeysOf(um_kwargs) \cap UnderscoreAttributes = {}
        => C11_UpdateMetadata

C11_Witness ==
    /\ Len(um_kwargs) = 2
    /\ um_kwargs[1].key \in MetadataFields
    /\ um_kwargs[2].key = "nonexistent"
    /\ um_raised = InvalidFieldError
    /\ um_before # DefaultMetadata

\* The agents constructed so far.
Constructed == {a \in AgentIds : agents[a].cls # NoObject}

\* C12: the configuration seen through a constructed agent (agent.metadata,
\* and what its client was built from) equals the values at binding time.
\* Violated: update_metadata through a Management that holds the same
\* Metadata object changes agent.metadata.
C12_BoundConfigImmutable ==
    \A a \in Constructed :
        /\ heap[agents[a].metadata] = agents[a].bound
        /\ agents[a].lm = get_lm(agents[a].bound)

\* The outputs of each stage of the pipeline cover the next stage's inputs.
OutputsCoverInputs(pipeline) ==
    \A i \in 1..(Len(pipeline) - 1) :
        Signatures[pipeline[i + 1]].inputs
            \subseteq Signatures[pipeline[i]].outputs

\* C13: every agent that was constructed has a pipeline in which each
\* stage's declared outputs cover the next stage's declared inputs (a
\* pipeline without that is rejected at construction).  Violated: __init__
\* checks nothing, and QANode's inputs question and context are outputs of
\* no stage.
C13_ConstructedPipelinesWellFormed ==
    \A a \in Constructed : OutputsCoverInputs(PipelineOf(agents[a].cls))

\* The objects a run holds: its agent, the agent's Metadata and tool.
InstancesOf(r) ==
    IF runs[r] = NoObject THEN {}
    ELSE {runs[r], agents[runs[r]].metadata, agents[runs[r]].tool} \ {NoTool}

\* C19: two runs in flight hold no object in common.  Violated: the flow
\* uses the agent it is handed, agents keep the caller's Metadata object, and
\* every Researcher holds the one module-level search_tool.
C19_RunsShareNothing ==
    \A r1, r2 \in RunIds :
        r1 # r2 => InstancesOf(r1) \cap InstancesOf(r2) = {}

\* The error the specification names for a tool loop that ran out.
ToolLoopExhausted == "FatalInferenceError(ToolLoopExhausted)"

\* C14: a Researcher run that ends without an answer, no inference call of
\* it having failed, has called its researcher module, whose tool loop is
\* the bounded one, and ends with the ToolLoopExhausted error.  Violated:
\* forward raises TypeError at its first stage call and the researcher
\* module is never called.
C14_ToolLoopExhausted ==
    p_persona = "Researcher"
        => \A v \in Variants :
              (p_run[v].phase = "failed"
                 /\ p_run[v].error # TransientInferenceError)
                 => /\ \E i \in DOMAIN p_run[v].calls :
                           p_run[v].calls[i].attr = "researcher"
                    /\ p_run[v].error = ToolLoopExhausted

Ended(v) == p_run[v].phase \in {"done", "failed"}

\* C16: when both variants of a persona have ended, they have made the same
\* stage calls with the same arguments on the same client, and have the same
\* output or the same error.  Violated: BaseAgent.forward runs its calls on
\* self.lm, BaseAgentSync.forward on the process-wide client.
C16_VariantsEquivalent ==
    (Ended("async") /\ Ended("sync"))
        => /\ p_run["async"].calls = p_run["sync"].calls
           /\ p_run["async"].out = p_run["sync"].out
           /\ p_run["async"].error = p_run["sync"].error

\* C17: in both variants of the base-QA pipeline the calls are made in the
\* order reasoner, enhance_query, get_answer, each only after the one before
\* has returned, and get_answer is given the enhancer's enhanced_query as
\* question and the reasoner's reasoning as context.
C17_BaseStagesInOrder ==
    p_persona = "BaseAgent"
        => \A v \in Variants :
             LET calls == p_run[v].calls
             IN  /\ Len(calls) <= 3
                 /\ \A k \in DOMAIN calls :
                       /\ calls[k].attr
                            = <<"reasoner", "enhance_query", "get_answer">>[k]
                       /\ k > 1 => (k - 1) \in p_run[v].finished
                 /\ \A k \in p_run[v].finished : k <= Len(calls)
                 /\ Len(calls) = 3
                       => calls[3].args = {<<"question", EnhancedQuery>>,
                                           <<"context", ReasonerReasoning>>}

C17_Witness ==
    /\ p_persona = "BaseAgent"
    /\ p_run["async"].phase = "done"
    /\ Len(p_run["async"].calls) = 3
    /\ p_run["async"].out = "answer.answer"
    /\ p_run["sync"].phase = "awaiting"
    /\ Len(p_run["sync"].calls) = 3

\* C18: a response that carries the status record of a workflow whose
\* background task has failed reports it failed, with an error.  Violated:
\* the executors only log the exception, and get_workflow_status answers
\* completed with no error for every id.
C18_FailureReported ==
    [][\A r \in produced' :
          (/\ produced' # produced
           /\ r.workflow_id \in DOMAIN execLog'
           /\ execLog'[r.workflow_id]
                  \notin {ExecutorAwaitingFlow, ExecutorCompleted})
              => (r.status = FAILED /\ r.error # NoError)]_vars

\* The string is "passed" in some mix of upper and lower case.
IsPassedInAnyCase(s) ==
    /\ Len(s) = Len(StrPassed)
    /\ \A i \in DOMAIN s : s[i] \in {StrPassed[i], StrPassedUpper[i]}

\* C24: security_check returns true exactly when the agent's result is
\* "passed" in any mix of upper and lower case, and false for every other
\* string.
C24_PassedIgnoringCase ==
    sc_result # NoString
        => (security_passed <=> IsPassedInAnyCase(sc_result))

C24_Witness ==
    /\ sc_result = StrPassedUpper
    /\ security_passed
    /\ taskState["security_check"] = "completed"
    /\ taskState["get_response"] = "running"

\* C25: an update_metadata call that raised has left the metadata as it was
\* before the call.  Violated: the fields named before the unknown key are
\* already set when the call raises.
C25_UpdateAllOrNothing ==
    um_raised # NoError => um_metadata = um_before

\* C22: an agent is bound only from a configuration whose provider is a
\* supported one and whose model id is not empty.  Violated: nothing looks
\* at the model id, so Metadata(model="") binds.
C22_BadConfigRejected ==
    c_phase = "bound"
        => /\ c_metadata.provider \in ProviderMembers
           /\ c_metadata.model # EmptyModel

\* C21: in every run the security check is evaluated by a SecurityAgent,
\* and not by the agent that get_response runs.  Violated: the flow has one
\* agent parameter and hands it to both tasks.
C21_SecurityPersonaDecides ==
    \A r \in RunIds :
        runs[r] # NoObject
            => /\ agents[security_check_agent(r)].cls = "SecurityAgent"
               /\ security_check_agent(r) # get_response_agent(r)

\* C23: every stage call of every variant runs on the agent's own client.
\* Violated: outside BaseAgent.forward no forward enters
\* dspy.context(lm=self.lm), so the calls of BaseAgentSync run on the
\* process-wide client.
C23_CallsUseOwnClient ==
    \A v \in Variants :
        \A k \in DOMAIN p_run[v].calls : p_run[v].calls[k].client = SelfLm

\* The executor that belongs to each workflow type.
MatchingExecutor ==
    {<<"sequential_chat", "_execute_sequential_chat_workflow">>,
     <<"batch_processing", "_execute_batch_processing_workflow">>,
     <<"periodic_analysis", "_execute_periodic_analysis_workflow">>}

\* C26: a trigger_workflow call that starts a workflow answers one status
\* record with status pending, progress 0 and no started_at or completed_at,
\* and schedules exactly one background task, the executor of the requested
\* type; a call that schedules a task never answers without such a record.
C26_TriggerSchedulesOne ==
    [][/\ \A id \in workflows' \ workflows :
             id[2] \in WorkflowTypes
                 => /\ \E r \in produced' :
                          /\ produced' = {r}
                          /\ r.workflow_id = id
                          /\ r.status = PENDING
                          /\ r.progress = 0
                          /\ r.started_at = NoTime
                          /\ r.completed_at = NoTime
                    /\ scheduled \subseteq scheduled'
                    /\ Cardinality(scheduled' \ scheduled) = 1
                    /\ \A t \in scheduled' \ scheduled :
                          /\ t.workflow_id = id
                          /\ <<id[2], t.fn>> \in MatchingExecutor
       /\ (scheduled' \ scheduled # {}) => (\E r \in produced' : r.status = PENDING)
       /\ (produced' = {} /\ produced # {}) => scheduled' = scheduled]_vars

C26_Witness ==
    \E t \in scheduled :
        /\ t.fn = "_execute_periodic_analysis_workflow"
        /\ t.workflow_id[2] = "periodic_analysis"
        /\ \E r \in produced :
              /\ r.workflow_id = t.workflow_id
              /\ r.status = PENDING
              /\ r.progress = 0

\* agent_id is "agent_" followed by a PersonaType value.
IsAgentIdOfPersona(agent_id) ==
    \E persona \in PersonaTypeValues : agent_id = AgentPrefix \o persona

\* C27: a request to get_agent_status or reset_agent is answered 200
\* exactly when agent_id is "agent_" followed by a PersonaType value, 400
\* when agent_id does not start with "agent_", 404 otherwise, and never
\* 500.  Violated: replace removes every "agent_", so "agent_agent_mentor"
\* is answered 200.
C27_AgentIdChecked ==
    ag_route # NoObject
        => /\ ag_status_code = 200 <=> IsAgentIdOfPersona(ag_agent_id)
           /\ ~StartsWith(ag_agent_id, AgentPrefix) => ag_status_code = 400
           /\ (StartsWith(ag_agent_id, AgentPrefix)
                  /\ ~IsAgentIdOfPersona(ag_agent_id)) => ag_status_code = 404
           /\ ag_status_code # 500

\* C28: health_check answers "healthy" exactly when it met no failure of
\* its own and the system_resources check (the one check that can vary) is
\* healthy, which it is exactly when psutil works and neither reading is
\* above its threshold; otherwise it answers "unhealthy", also when
\* health_check itself fails.
C28_HealthyIffAllHealthy ==
    h_response # NoHealthResponse
        => /\ h_response.status \in {"healthy", "unhealthy"}
           /\ h_response.status = "healthy"
                 <=> /\ ~h_input.settings_raises
                     /\ ~h_input.psutil_raises
                     /\ h_input.cpu_usage <= cpu_threshold
                     /\ h_input.memory_percent <= memory_threshold
           /\ h_response.status = "healthy"
                 => h_response.system_resources = "healthy"
           /\ h_response.system_resources \in {"warning", "unhealthy"}
                 => h_response.status = "unhealthy"
           /\ h_input.settings_raises
                 => h_response.failed /\ h_response.status = "unhealthy"

C28_Witness ==
    /\ h_response.status = "unhealthy"
    /\ h_response.system_resources = "warning"
    /\ h_input.cpu_usage = cpu_threshold + 1
    /\ h_input.memory_percent = memory_threshold
    /\ ~h_response.failed

\* The four conditions of the claim on a request, its response and the
\* middleware.
CompressionDue(d) ==
    /\ SupportsGzip(d.accept_encoding) \/ SupportsDeflate(d.accept_encoding)
    /\ d.response.content_encoding = NoHeader
    /\ d.response.content_type.media \in compressible_types
    /\ Len(d.response.body) >= cm_minimum_size

\* What C29 says of one request dispatch has returned from.
CompressedAsDue(d) ==
    IF CompressionDue(d)
    THEN /\ d.result.raised = NoError
         /\ IF SupportsGzip(d.accept_encoding)
            THEN /\ d.result.content_encoding = "gzip"
                 /\ d.result.body =
                        GzipCompress(d.response.body, compression_level)
            ELSE /\ d.result.content_encoding = "deflate"
                 /\ d.result.body =
                        ZlibCompress(d.response.body, compression_level)
    ELSE /\ d.result.raised = NoError
         /\ d.result.body = Identity(d.response.body)
         /\ d.result.content_encoding = d.response.content_encoding

\* C29: a response body is compressed exactly when the request accepts gzip
\* or deflate, the response has no content-encoding, its content type is
\* compressible and the body has at least minimum_size bytes; gzip is used
\* whenever the client accepts it and deflate only otherwise; in every
\* other case the body is delivered unchanged and no content-encoding
\* header is added.
C29_CompressesExactlyWhenDue ==
    \A r \in RequestIds :
        cm_dispatch[r].at = "returned" => CompressedAsDue(cm_dispatch[r])

\* Apart from the empty body, dispatch does what C29 says.
CompressesNonEmptyWhenDue ==
    \A r \in RequestIds :
        (cm_dispatch[r].at = "returned"
            /\ Len(cm_dispatch[r].response.body) > 0)
            => CompressedAsDue(cm_dispatch[r])

\* A body of minimum_size bytes is compressed with deflate for a client
\* that does not accept gzip, while another request is in flight.
CompressedWithDeflate ==
    /\ cm_dispatch["A"].at = "returned"
    /\ cm_dispatch["A"].result.raised = NoError
    /\ cm_dispatch["A"].result.content_encoding = "deflate"
    /\ Len(cm_dispatch["A"].response.body) = cm_minimum_size
    /\ cm_dispatch["A"].result.body # Identity(cm_dispatch["A"].response.body)
    /\ cm_dispatch["B"].at = "_compress_body"

\* A body below minimum_size passes unchanged.
SmallBodyPasses ==
    \E r \in RequestIds :
        /\ cm_dispatch[r].at = "returned"
        /\ SupportsGzip(cm_dispatch[r].accept_encoding)
        /\ cm_dispatch[r].response.content_encoding = NoHeader
        /\ cm_dispatch[r].response.content_type.media \in compressible_types
        /\ Len(cm_dispatch[r].response.body) = cm_minimum_size - 1
        /\ cm_dispatch[r].result.body = Identity(cm_dispatch[r].response.body)
        /\ cm_dispatch[r].result.content_encoding = NoHeader

StepsRun == [i \in DOMAIN b_log |-> b_log[i].step]

Ran(step) == \E i \in DOMAIN b_log : b_log[i].step = step

\* The steps are called in the fixed order.
BuildStepsInOrder == StepsRun = SubSeq(BuildSteps, 1, Len(b_log))

\* A failing backend build ends the build with exit code 1 and no later
\* step is called.
BackendFailureAborts ==
    Ran("build_backend") /\ BackendFails(b_env)
        => /\ b_exit = 1
           /\ b_log[Len(b_log)].step = "build_backend"

\* A failing frontend build does not end the build.
FrontendFailureGoesOn ==
    Ran("build_frontend") /\ FrontendFails(b_env)
        => ~(b_exit = 1 /\ b_log[Len(b_log)].step = "build_frontend")

\* After a build step the working directory is the original one.
BuildStepsRestoreCwd ==
    Ran("build_backend") \/ Ran("build_frontend") => b_cwd = b_env.cwd

\* C30: build calls setup_directories, validate_environment, build_backend,
\* build_frontend, apply_c7_optimizations, create_deployment_package,
\* generate_build_manifest and print_build_summary in this order; a failing
\* backend build aborts the build with exit code 1 before any later step
\* runs, a failing frontend build does not abort it, and both build steps
\* restore the original working directory whether they succeed or fail.
C30_BuildOrderAndFailures ==
    /\ BuildStepsInOrder
    /\ BackendFailureAborts
    /\ FrontendFailureGoesOn
    /\ BuildStepsRestoreCwd

\* What build does apart from a frontend build whose command cannot be run.
BuildOrderBackendAndCwd ==
    /\ BuildStepsInOrder
    /\ BackendFailureAborts
    /\ BuildStepsRestoreCwd
    /\ Ran("build_frontend") /\ b_env.frontend = "CalledProcessError"
           => ~(b_exit = 1 /\ b_log[Len(b_log)].step = "build_frontend")

\* A build whose frontend command exits non-zero runs to its last step,
\* having changed to both directories and back.
FrontendFailedBuildWentOn ==
    /\ b_exit = 1
    /\ Len(b_log) = Len(BuildSteps)
    /\ b_log[Len(b_log)].raised = "KeyError"
    /\ b_env.frontend = "CalledProcessError"
    /\ b_env.cwd = "elsewhere"
    /\ b_log[3].ran_in = "backend_dir"
    /\ b_log[4].ran_in = "frontend_dir"
    /\ b_cwd = "elsewhere"

\* A build whose backend script exits non-zero stops there.
BackendFailedBuildAborted ==
    /\ b_exit = 1
    /\ Len(b_log) = 3
    /\ b_env.backend = "CalledProcessError"
    /\ b_log[3].ran_in = "backend_dir"
    /\ b_cwd = b_env.cwd

FlowNext ==
    \/ StartFlow
    \/ \E result \in AgentResults : SecurityCheckReturn(result)
    \/ \E result \in AgentResults : GetResponseReturn(result)
    \/ \E exc \in AgentErrors : SecurityCheckRaise(exc)
    \/ \E exc \in AgentErrors : GetResponseRaise(exc)
    \/ \E t \in Tasks : RetryAttempt(t)
    \/ AgentHangs
    \/ Tick
    \/ FlowTimeout

ApiNext ==
    \/ ApiTick
    \/ \E type \in WorkflowTypes, persona \in PersonaParams :
          trigger_workflow(type, persona)
    \/ \E type \in WorkflowTypeInputs : trigger_workflow_rejected(type)
    \/ trigger_batch_processing
    \/ \E per_page \in PerPageValues : list_workflows(per_page)
    \/ \E id \in QueryIds : get_workflow_status(id)
    \/ \E id \in QueryIds : cancel_workflow(id)

BackgroundNext ==
    \/ ApiNext
    \/ \E task \in scheduled : execute_background_task(task)
    \/ \E id \in DOMAIN execLog, outcome \in FlowOutcomes :
          flow_ends(id, outcome)

UpdateNext ==
    \E kwargs \in KwargsInputs : CallUpdateMetadata(kwargs)

BindNext ==
    \/ \E m \in MetadataIds : Metadata__init__(m)
    \/ \E m \in MetadataIds : Management__init__(m)
    \/ \E m \in MetadataIds : set_metadata(m)
    \/ \E kwargs \in BindKwargs : ManagerUpdateMetadata(kwargs)
    \/ \E a \in AgentIds, cls \in BindClasses, m \in MetadataIds :
          Agent__init__(a, cls, m)
    \/ \E r \in RunIds, a \in AgentIds : StartRun(r, a)

PipeNext ==
    \/ \E persona \in Personas, ambient \in AmbientClients,
          results \in [1..MaxStages -> InferenceResults] :
          StartPipelines(persona, ambient, results)
    \/ \E v \in Variants : StageStart(v)
    \/ \E v \in Variants : StageFinish(v)

ConfigNext ==
    \/ \E model \in ModelInputs, provider \in ProviderInputs :
          ConstructMetadata(model, provider)
    \/ \E kwargs \in ConfigKwargs : ConfigUpdateMetadata(kwargs)
    \/ BindAgent

AgentApiNext ==
    \/ \E agent_id \in AgentIdInputs : get_agent_status(agent_id)
    \/ \E agent_id \in AgentIdInputs : reset_agent(agent_id)

HealthNext ==
    \E in \in HealthInputs : health_check(in)

CompressNext ==
    \/ \E minimum_size \in MinimumSizes :
          CompressionMiddleware__init__(minimum_size)
    \/ \E r \in RequestIds, accept_encoding \in AcceptEncodings :
          dispatch(r, accept_encoding)
    \/ \E r \in RequestIds, resp \in Responses : call_next(r, resp)
    \/ \E r \in RequestIds : body_iterator(r)
    \/ \E r \in RequestIds : compress_body_returns(r)

BuildNext ==
    \/ \E env \in BuildEnvs : StartBuild(env)
    \/ setup_directories
    \/ validate_environment
    \/ build_backend
    \/ build_frontend
    \/ apply_c7_optimizations
    \/ create_deployment_package
    \/ generate_build_manifest
    \/ print_build_summary

Next == FlowNext

Spec == Init /\ [][Next]_vars

\* The routes on their own: no handler reaches a flow run.
ApiSpec == Init /\ [][ApiNext]_vars

\* The routes and the background tasks they schedule.
BackgroundSpec == Init /\ [][BackgroundNext]_vars

\* update_metadata on its own, called again and again on one object.
UpdateSpec == Init /\ [][UpdateNext]_vars

\* Callers constructing and sharing Metadata, Management, agents and runs.
BindSpec == Init /\ [][BindNext]_vars

\* Agents run: both variants of a persona on one query.
PipeSpec == Init /\ [][PipeNext]_vars

\* One configuration built, updated and bound.
ConfigSpec == Init /\ [][ConfigNext]_vars

\* Requests to the agents routes.
AgentApiSpec == Init /\ [][AgentApiNext]_vars

\* Calls of the health endpoint.
HealthSpec == Init /\ [][HealthNext]_vars

\* Requests passing through one CompressionMiddleware, interleaved.
CompressSpec == Init /\ [][CompressNext]_vars

\* Runs of the build system in the environments it can meet.
BuildSpec == Init /\ [][BuildNext]_vars

\* The event loop keeps running: time advances and a due timeout fires.
LiveSpec == Spec /\ WF_vars(Tick) /\ WF_vars(FlowTimeout)

====
